---- MODULE Spec2Model ----
(***************************************************************************)
(* Roman numerals (roman.py): the token table, the tokenizer _get_token,   *)
(* the validator _is_valid_roman, the decoder roman_to_int, the encoder    *)
(* int_to_roman and the Roman instance with its numeral, value and         *)
(* subtractive_notation properties.                                        *)
(*                                                                         *)
(* A numeral is a sequence of one-character strings; a token key is a      *)
(* sequence of one or two characters ('IV' is <<"I", "V">>).  Python       *)
(* indexes from 0 and this module from 1.  An operator that can raise      *)
(* returns a record whose field raised is "" when nothing was raised.      *)
(***************************************************************************)
EXTENDS Integers, Sequences, FiniteSets, TLC

VARIABLES
    pc,                    \* where the run stands: no instance, a live one, ...
    numeral,               \* Roman._numeral
    subtractive_notation,  \* Roman._subtractive_notation
    is_valid,              \* Roman.is_valid
    check,                 \* Roman.check
    value,                 \* Roman._value
    op,                    \* the operation that ran last
    raised,                \* the exception the last operation raised ("" for none)
    printed,               \* whether the last operation printed the value-change notice
    integer,               \* the argument given to int_to_roman
    roman                  \* the string int_to_roman returned

vars == <<pc, numeral, subtractive_notation, is_valid, check, value,
          op, raised, printed, integer, roman>>

-----------------------------------------------------------------------------
(* Bounds of the model *)

\* integers 0 .. MaxInt are encoded
MaxInt == 3999
\* integers -MaxNeg .. -1 are encoded too
MaxNeg == 1
\* longest string handed to the validator and the decoder on their own
MaxLen == 5
\* longest string handed to the constructor when only instances are built
MaxNewLen == 3
\* longest string handed to the constructor of an instance that lives on
MaxCtorLen == 2
\* longest string assigned to the numeral of an instance
MaxAssignLen == 1
\* largest integer assigned to the value of an instance
MaxValueArg == 2

-----------------------------------------------------------------------------
(* The token table *)

tokens ==
    << [key |-> <<"I">>,      value |-> 1,    subtractives |-> {<<"I", "V">>, <<"I", "X">>}],
       [key |-> <<"I", "V">>, value |-> 4,    subtractives |-> {}],
       [key |-> <<"V">>,      value |-> 5,    subtractives |-> {}],
       [key |-> <<"I", "X">>, value |-> 9,    subtractives |-> {}],
       [key |-> <<"X">>,      value |-> 10,   subtractives |-> {<<"X", "L">>, <<"X", "C">>}],
       [key |-> <<"X", "L">>, value |-> 40,   subtractives |-> {}],
       [key |-> <<"L">>,      value |-> 50,   subtractives |-> {}],
       [key |-> <<"X", "C">>, value |-> 90,   subtractives |-> {}],
       [key |-> <<"C">>,      value |-> 100,  subtractives |-> {<<"C", "D">>, <<"C", "M">>}],
       [key |-> <<"C", "D">>, value |-> 400,  subtractives |-> {}],
       [key |-> <<"D">>,      value |-> 500,  subtractives |-> {}],
       [key |-> <<"C", "M">>, value |-> 900,  subtractives |-> {}],
       [key |-> <<"M">>,      value |-> 1000, subtractives |-> {}] >>

\* k in Roman.tokens.keys()
HasToken(k) == \E i \in DOMAIN tokens : tokens[i].key = k

\* the place of key k in Roman.tokens (1 for 'I', 13 for 'M')
TokenPos(k) == CHOOSE i \in DOMAIN tokens : tokens[i].key = k

\* Roman.tokens[k]
Token(k) == tokens[TokenPos(k)]

\* token_index[k] of _is_valid_roman: the place of k in the reversed table,
\* 0 for 'M' and 12 for 'I'
token_index(k) == Len(tokens) - TokenPos(k)

\* str.upper() on one character
upper_char(c) ==
    CASE c = "i" -> "I" [] c = "v" -> "V" [] c = "x" -> "X" [] c = "l" -> "L"
      [] c = "c" -> "C" [] c = "d" -> "D" [] c = "m" -> "M" [] c = "z" -> "Z"
      [] OTHER -> c

\* str.upper()
upper(s) == [i \in DOMAIN s |-> upper_char(s[i])]

-----------------------------------------------------------------------------
(* The tokenizer *)

\* as _get_token, the repetition limit of additive notation given to
\* subtractive notation too
_get_token_rep3(num, subtr_notation, index, char) ==
    IF ~HasToken(<<char>>)
    THEN [raised |-> "KeyError", present_token |-> <<char>>,
          skip_next_char |-> FALSE, max_rep |-> 0]
    ELSE LET subtr == Token(<<char>>).subtractives IN
         IF subtr # {}
         THEN IF /\ subtr_notation
                 /\ index + 1 <= Len(num)
                 /\ <<char, num[index + 1]>> \in subtr
              THEN [raised |-> "", present_token |-> <<char, num[index + 1]>>,
                    skip_next_char |-> TRUE, max_rep |-> 3]
              ELSE [raised |-> "", present_token |-> <<char>>,
                    skip_next_char |-> FALSE, max_rep |-> 3]
         ELSE [raised |-> "", present_token |-> <<char>>,
               skip_next_char |-> FALSE, max_rep |-> 0]

_get_token(num, subtr_notation, index, char) ==
    IF ~HasToken(<<char>>)
    THEN [raised |-> "KeyError", present_token |-> <<char>>,
          skip_next_char |-> FALSE, max_rep |-> 0]
    ELSE LET subtr == Token(<<char>>).subtractives IN
         IF subtr # {}
         THEN IF subtr_notation
              THEN IF index + 1 <= Len(num) /\ <<char, num[index + 1]>> \in subtr
                   THEN [raised |-> "", present_token |-> <<char, num[index + 1]>>,
                         skip_next_char |-> TRUE, max_rep |-> 2]
                   ELSE [raised |-> "", present_token |-> <<char>>,
                         skip_next_char |-> FALSE, max_rep |-> 2]
              ELSE [raised |-> "", present_token |-> <<char>>,
                    skip_next_char |-> FALSE, max_rep |-> 3]
         ELSE [raised |-> "", present_token |-> <<char>>,
               skip_next_char |-> FALSE, max_rep |-> 0]

-----------------------------------------------------------------------------
(* The decoder *)

RECURSIVE roman_to_int_loop(_, _, _, _, _)
roman_to_int_loop(num, subtr_notation, index, skip_next_char, acc) ==
    IF index > Len(num)
    THEN [raised |-> "", integer |-> acc]
    ELSE IF skip_next_char
    THEN roman_to_int_loop(num, subtr_notation, index + 1, FALSE, acc)
    ELSE LET t == _get_token(num, subtr_notation, index, num[index]) IN
         IF t.raised # ""
         THEN [raised |-> t.raised, integer |-> acc]
         ELSE roman_to_int_loop(num, subtr_notation, index + 1, t.skip_next_char,
                                acc + Token(t.present_token).value)

roman_to_int(num, subtr_notation) ==
    roman_to_int_loop(num, subtr_notation, 1, FALSE, 0)

-----------------------------------------------------------------------------
(* The validator *)

\* as modifier, XC and CM spending one place as XL and CD do
modifier_one(previous_token) ==
    IF previous_token \in {<<"X", "L">>, <<"C", "D">>, <<"X", "C">>, <<"C", "M">>}
    THEN 1
    ELSE 0

\* the modifier _is_valid_roman adds to the index of the previous token
modifier(previous_token) ==
    IF previous_token \in {<<"X", "L">>, <<"C", "D">>} THEN 1
    ELSE IF previous_token \in {<<"X", "C">>, <<"C", "M">>} THEN 3
    ELSE 0

\* as terminal_tokens, no token being the last one
terminal_tokens_none == {}

\* the tokens after which _is_valid_roman accepts no further token
terminal_tokens == {<<"I", "V">>, <<"I", "X">>}

RECURSIVE _is_valid_roman_loop(_, _, _, _, _, _)
_is_valid_roman_loop(num, subtr_notation, index, skip_next_char, previous_token, repetitions) ==
    IF index > Len(num)
    THEN [raised |-> "", result |-> TRUE]
    ELSE IF skip_next_char
    THEN _is_valid_roman_loop(num, subtr_notation, index + 1, FALSE,
                              previous_token, repetitions)
    ELSE LET t == _get_token(num, subtr_notation, index, num[index]) IN
         IF t.raised # ""
         THEN [raised |-> t.raised, result |-> FALSE]
         ELSE IF previous_token \in terminal_tokens
         THEN [raised |-> "", result |-> FALSE]
         ELSE IF previous_token = t.present_token
         THEN IF repetitions + 1 > t.max_rep /\ t.present_token # <<"M">>
              THEN [raised |-> "", result |-> FALSE]
              ELSE _is_valid_roman_loop(num, subtr_notation, index + 1,
                                        t.skip_next_char, t.present_token,
                                        repetitions + 1)
         ELSE IF /\ HasToken(previous_token)
                 /\ token_index(previous_token) + modifier(previous_token)
                        > token_index(t.present_token)
              THEN [raised |-> "", result |-> FALSE]
              ELSE _is_valid_roman_loop(num, subtr_notation, index + 1,
                                        t.skip_next_char, t.present_token, 0)

_is_valid_roman(num, subtr_notation) ==
    _is_valid_roman_loop(num, subtr_notation, 1, FALSE, <<>>, 0)

-----------------------------------------------------------------------------
(* The encoder *)

\* for rom_val in reversed(Roman.tokens.keys()): the place of the first key,
\* from place i down, that is not skipped and does not exceed n (0 for none)
RECURSIVE first_fit(_, _, _)

\* as first_fit, the digraphs tried in additive notation too
first_fit_digraphs(n, subtr_notation, i) ==
    IF i = 0 THEN 0
    ELSE IF n >= tokens[i].value THEN i
    ELSE first_fit(n, subtr_notation, i - 1)

first_fit(n, subtr_notation, i) ==
    IF i = 0 THEN 0
    ELSE IF Len(tokens[i].key) = 2 /\ ~subtr_notation
    THEN first_fit(n, subtr_notation, i - 1)
    ELSE IF n >= tokens[i].value THEN i
    ELSE first_fit(n, subtr_notation, i - 1)

\* while integer > 0: ...
RECURSIVE int_to_roman_loop(_, _, _)
int_to_roman_loop(n, subtr_notation, acc) ==
    IF n > 0
    THEN LET i == first_fit(n, subtr_notation, Len(tokens)) IN
         int_to_roman_loop(n - tokens[i].value, subtr_notation, acc \o tokens[i].key)
    ELSE acc

int_to_roman(n, subtr_notation, accept_negative) ==
    IF n < 0
    THEN IF accept_negative
         THEN [raised |-> "", roman |-> int_to_roman_loop(-n, subtr_notation, <<"-">>)]
         ELSE [raised |-> "ValueError", roman |-> <<>>]
    ELSE [raised |-> "", roman |-> int_to_roman_loop(n, subtr_notation, <<>>)]

-----------------------------------------------------------------------------
(* The codec on its own: int_to_roman on an integer, then the validator    *)
(* and the decoder on the string it returned.                              *)

InitCodec ==
    /\ pc = "integer"
    /\ integer \in (0 - MaxNeg) .. MaxInt
    /\ subtractive_notation \in BOOLEAN
    /\ numeral = <<>>
    /\ is_valid = FALSE
    /\ check = FALSE
    /\ value = 0
    /\ op = ""
    /\ raised = ""
    /\ printed = FALSE
    /\ roman = <<>>

Encode(accept_negative) ==
    /\ pc = "integer"
    /\ LET r == int_to_roman(integer, subtractive_notation, accept_negative) IN
       /\ roman' = r.roman
       /\ raised' = r.raised
    /\ pc' = "encoded"
    /\ op' = "int_to_roman"
    /\ UNCHANGED <<numeral, subtractive_notation, is_valid, check, value,
                   printed, integer>>

Decode ==
    /\ pc = "encoded"
    /\ raised = ""
    /\ LET v == _is_valid_roman(roman, subtractive_notation)
           d == roman_to_int(roman, subtractive_notation)
       IN /\ numeral' = roman
          /\ is_valid' = v.result
          /\ value' = d.integer
          /\ raised' = IF v.raised # "" THEN v.raised ELSE d.raised
    /\ pc' = "decoded"
    /\ op' = "roman_to_int"
    /\ UNCHANGED <<subtractive_notation, check, printed, integer, roman>>

NextCodec ==
    \/ \E accept_negative \in BOOLEAN : Encode(accept_negative)
    \/ Decode

SpecCodec == InitCodec /\ [][NextCodec]_vars

\* C1: for every integer n in [0, 3999] and either style, the string
\* int_to_roman returns is accepted by the validator under that style and
\* roman_to_int decodes it back to n (0 gives the empty string).
C1_RoundTrip ==
    (pc = "decoded" /\ integer >= 0) =>
        /\ raised = ""
        /\ is_valid
        /\ value = integer
        /\ (integer = 0 => numeral = <<>>)

C1_Witness ==
    /\ pc = "decoded"
    /\ integer = MaxInt
    /\ subtractive_notation
    /\ numeral = <<"M", "M", "M", "C", "M", "X", "C", "I", "X">>
    /\ is_valid
    /\ value = MaxInt

-----------------------------------------------------------------------------
(* The validator and the decoder on their own: a string over the alphabet  *)
(* is scanned by _is_valid_roman and roman_to_int, and the integer it      *)
(* decodes to is encoded again in the same style.                          *)

Alphabet == {"I", "V", "X", "L", "C", "D", "M"}

\* the strings over the set of characters chars, at most n long
Strings(chars, n) == UNION {[1 .. k -> chars] : k \in 0 .. n}

InitScan ==
    /\ pc = "string"
    /\ numeral \in Strings(Alphabet, MaxLen)
    /\ subtractive_notation \in BOOLEAN
    /\ is_valid = FALSE
    /\ check = FALSE
    /\ value = 0
    /\ op = ""
    /\ raised = ""
    /\ printed = FALSE
    /\ integer = 0
    /\ roman = <<>>

Scan ==
    /\ pc = "string"
    /\ LET v == _is_valid_roman(numeral, subtractive_notation)
           d == roman_to_int(numeral, subtractive_notation)
       IN /\ is_valid' = v.result
          /\ value' = d.integer
          /\ raised' = IF v.raised # "" THEN v.raised ELSE d.raised
    /\ pc' = "scanned"
    /\ op' = "roman_to_int"
    /\ UNCHANGED <<numeral, subtractive_notation, check, printed, integer, roman>>

Reencode ==
    /\ pc = "scanned"
    /\ raised = ""
    /\ LET r == int_to_roman(value, subtractive_notation, FALSE) IN
       /\ roman' = r.roman
       /\ raised' = r.raised
    /\ integer' = value
    /\ pc' = "reencoded"
    /\ op' = "int_to_roman"
    /\ UNCHANGED <<numeral, subtractive_notation, is_valid, check, value, printed>>

NextScan == Scan \/ Reencode

SpecScan == InitScan /\ [][NextScan]_vars

-----------------------------------------------------------------------------
(* What the claims about the validator speak of, stated without the        *)
(* tokenizer of the code.                                                  *)

Digraphs == {<<"I", "V">>, <<"I", "X">>, <<"X", "L">>, <<"X", "C">>,
             <<"C", "D">>, <<"C", "M">>}

\* the tokens of a string over the alphabet, read from place index on
RECURSIVE TokensFrom(_, _, _)
TokensFrom(num, subtr_notation, index) ==
    IF index > Len(num) THEN <<>>
    ELSE IF /\ subtr_notation
            /\ index < Len(num)
            /\ <<num[index], num[index + 1]>> \in Digraphs
    THEN <<(<<num[index], num[index + 1]>>)>> \o TokensFrom(num, subtr_notation, index + 2)
    ELSE <<(<<num[index]>>)>> \o TokensFrom(num, subtr_notation, index + 1)

TokensOf(num, subtr_notation) == TokensFrom(num, subtr_notation, 1)

\* the place of a token in the value order I < IV < V < ... < CM < M
Rank(t) == Cardinality({u \in Digraphs \cup {<<c>> : c \in Alphabet} :
                            Token(u).value < Token(t).value})

\* num is k >= 1 copies of the character c
IsRun(num, c) == Len(num) >= 1 /\ \A i \in DOMAIN num : num[i] = c

\* the tokens ts hold n consecutive copies of the one-character token <<c>>
HasTokenRun(ts, c, n) ==
    \E i \in 1 .. Len(ts) - n + 1 : \A j \in i .. i + n - 1 : ts[j] = <<c>>

Str3(a, b, c) == <<a, b, c>>
Str4(a, b, c, d) == <<a, b, c, d>>

\* C2: every string the validator accepts in subtractive mode is what
\* int_to_roman returns for the integer it decodes to.
C2_Lossless ==
    (pc = "reencoded" /\ subtractive_notation /\ is_valid) => roman = numeral

\* C6: in a numeral the validator accepts, token values never increase from
\* left to right, a different token after XC or CM ranks at least three
\* places below it and after XL or CD at least one place below it; XLL, XCL,
\* XCXL, CMD and CMCD are rejected.
C6_Ordering ==
    pc = "scanned" =>
        LET ts == TokensOf(numeral, subtractive_notation) IN
        /\ raised = ""
        /\ is_valid =>
              \A i \in 1 .. Len(ts) - 1 :
                  /\ Token(ts[i]).value >= Token(ts[i + 1]).value
                  /\ (ts[i] # ts[i + 1] /\ ts[i] \in {<<"X", "C">>, <<"C", "M">>})
                        => Rank(ts[i + 1]) <= Rank(ts[i]) - 3
                  /\ (ts[i] # ts[i + 1] /\ ts[i] \in {<<"X", "L">>, <<"C", "D">>})
                        => Rank(ts[i + 1]) <= Rank(ts[i]) - 1
        /\ numeral \in {Str3("X", "L", "L"), Str3("X", "C", "L"),
                        Str4("X", "C", "X", "L"), Str3("C", "M", "D"),
                        Str4("C", "M", "C", "D")} => ~is_valid

C6_Witness ==
    /\ pc = "scanned"
    /\ subtractive_notation
    /\ numeral = Str4("C", "M", "X", "C")
    /\ is_valid

\* the longest run of the character c the claim allows (MaxLen + 1 stands
\* for no limit)
RunLimit(c, subtr_notation) ==
    IF c = "M" THEN MaxLen + 1
    ELSE IF c \in {"V", "L", "D"} THEN 1
    ELSE IF subtr_notation THEN 3 ELSE 4

\* C7: k copies of one character are accepted iff k is within the limit of
\* that character (3 for I, X, C in subtractive mode and 4 in additive mode,
\* 1 for V, L, D, none for M); a numeral holding a longer run of a
\* one-character token is rejected; MMMM is valid with value 4000.
C7_RunLength ==
    pc = "scanned" =>
        /\ \A c \in Alphabet :
              IsRun(numeral, c) =>
                  (is_valid <=> Len(numeral) <= RunLimit(c, subtractive_notation))
        /\ \A c \in Alphabet \ {"M"} :
              HasTokenRun(TokensOf(numeral, subtractive_notation), c,
                          RunLimit(c, subtractive_notation) + 1) => ~is_valid
        /\ numeral = Str4("M", "M", "M", "M") => (is_valid /\ value = 4000)

C7_Witness ==
    /\ pc = "scanned"
    /\ ~subtractive_notation
    /\ numeral = Str4("I", "I", "I", "I")
    /\ is_valid
    /\ value = 4

\* C8: in subtractive mode a numeral in which IV or IX is followed by a
\* further token is rejected; IV or IX as the last token after a valid
\* numeral that holds neither and ends in a larger token is accepted; XL, XC,
\* CD, CM may be followed (XLI and XCIX are accepted).
C8_Terminal ==
    (pc = "scanned" /\ subtractive_notation) =>
        LET ts == TokensOf(numeral, TRUE)
            n == Len(ts)
            head == SubSeq(numeral, 1, Len(numeral) - 2)
        IN
        /\ (\E i \in 1 .. n - 1 : ts[i] \in {<<"I", "V">>, <<"I", "X">>}) => ~is_valid
        /\ ( /\ n >= 1
             /\ ts[n] \in {<<"I", "V">>, <<"I", "X">>}
             /\ \A i \in 1 .. n - 1 : ts[i] \notin {<<"I", "V">>, <<"I", "X">>}
             /\ n >= 2 => Token(ts[n - 1]).value > Token(ts[n]).value
             /\ _is_valid_roman(head, TRUE).result ) => is_valid
        /\ numeral \in {Str3("X", "L", "I"), Str4("X", "C", "I", "X")} => is_valid

C8_Witness ==
    /\ pc = "scanned"
    /\ subtractive_notation
    /\ numeral = Str3("I", "X", "I")
    /\ ~is_valid

C8_WitnessLast ==
    /\ pc = "scanned"
    /\ subtractive_notation
    /\ numeral = Str4("X", "C", "I", "X")
    /\ is_valid

-----------------------------------------------------------------------------
(* A Roman instance.  self is the record of its attributes; an operation   *)
(* returns the attributes it leaves, the exception it raised and whether   *)
(* it printed the notice of the numeral setter.                            *)

Self == [numeral |-> numeral, subtractive_notation |-> subtractive_notation,
         is_valid |-> is_valid, check |-> check, value |-> value]

Outcome(self, exc, notice) == [self |-> self, raised |-> exc, printed |-> notice]

\* as numeral_setter, the old numeral not put back after the notice
numeral_setter_keep(self, has_numeral, s) ==
    IF ~has_numeral
    THEN Outcome([self EXCEPT !.numeral = upper(s)], "", FALSE)
    ELSE LET new == [self EXCEPT !.numeral = upper(s)]
             d == roman_to_int(new.numeral, new.subtractive_notation)
         IN IF d.raised # ""
            THEN Outcome(new, d.raised, FALSE)
            ELSE Outcome(new, "", self.value # d.integer)

\* Roman.numeral setter; has_numeral is "self._numeral is not None"
numeral_setter(self, has_numeral, s) ==
    IF ~has_numeral
    THEN Outcome([self EXCEPT !.numeral = upper(s)], "", FALSE)
    ELSE LET new == [self EXCEPT !.numeral = upper(s)]
             d == roman_to_int(new.numeral, new.subtractive_notation)
         IN IF d.raised # ""
            THEN Outcome(new, d.raised, FALSE)
            ELSE IF self.value # d.integer
            THEN Outcome(self, "", TRUE)
            ELSE Outcome(new, "", FALSE)

\* Roman.value setter
value_setter(self, k) ==
    LET d == roman_to_int(self.numeral, self.subtractive_notation) IN
    IF d.raised # ""
    THEN Outcome(self, d.raised, FALSE)
    ELSE IF k # d.integer
    THEN Outcome(self, "ValueError: arbitrary value", FALSE)
    ELSE Outcome([self EXCEPT !.value = k], "", FALSE)

\* as subtractive_notation_setter, int_to_roman called with its default style
subtractive_notation_setter_default(self, has_value, b) ==
    LET new == [self EXCEPT !.subtractive_notation = b] IN
    IF ~has_value
    THEN Outcome(new, "", FALSE)
    ELSE numeral_setter(new, TRUE, int_to_roman(new.value, TRUE, FALSE).roman)

\* Roman.subtractive_notation setter; has_value is whether self._value
\* exists (reading it raises AttributeError in __init__, which is passed over)
subtractive_notation_setter(self, has_value, b) ==
    LET new == [self EXCEPT !.subtractive_notation = b] IN
    IF ~has_value
    THEN Outcome(new, "", FALSE)
    ELSE LET r == int_to_roman(new.value, b, FALSE) IN
         IF r.raised # ""
         THEN Outcome(new, r.raised, FALSE)
         ELSE numeral_setter(new, TRUE, r.roman)

\* as check_validity, an invalid numeral raising whatever check is
check_validity_strict(self, chk) ==
    LET v == _is_valid_roman(self.numeral, self.subtractive_notation) IN
    IF v.raised # ""
    THEN Outcome(self, v.raised, FALSE)
    ELSE IF ~v.result
    THEN Outcome([self EXCEPT !.is_valid = v.result],
                 "ValueError: not a valid roman numeral", FALSE)
    ELSE Outcome([self EXCEPT !.is_valid = v.result], "", FALSE)

\* Roman.check_validity
check_validity(self, chk) ==
    LET v == _is_valid_roman(self.numeral, self.subtractive_notation) IN
    IF v.raised # ""
    THEN Outcome(self, v.raised, FALSE)
    ELSE IF chk /\ ~v.result
    THEN Outcome([self EXCEPT !.is_valid = v.result],
                 "ValueError: not a valid roman numeral", FALSE)
    ELSE Outcome([self EXCEPT !.is_valid = v.result], "", FALSE)

\* Roman.__init__
Roman_init(self, s, chk, subtr_notation) ==
    LET s1 == numeral_setter(self, FALSE, s).self
        s2 == subtractive_notation_setter(s1, FALSE, subtr_notation).self
    IN IF \E i \in DOMAIN s2.numeral : ~HasToken(<<s2.numeral[i]>>)
       THEN Outcome(s2, "ValueError: not a valid character", FALSE)
       ELSE LET s3 == [s2 EXCEPT !.check = chk]
                c == check_validity(s3, chk)
            IN IF c.raised # ""
               THEN c
               ELSE value_setter(c.self,
                                 roman_to_int(c.self.numeral,
                                              c.self.subtractive_notation).integer)

\* the attributes and the outcome an operation leaves
Leaves(r) ==
    /\ numeral' = r.self.numeral
    /\ subtractive_notation' = r.self.subtractive_notation
    /\ is_valid' = r.self.is_valid
    /\ check' = r.self.check
    /\ value' = r.self.value
    /\ raised' = r.raised
    /\ printed' = r.printed

Init ==
    /\ pc = "none"
    /\ numeral = <<>>
    /\ subtractive_notation = TRUE
    /\ is_valid = FALSE
    /\ check = FALSE
    /\ value = 0
    /\ op = ""
    /\ raised = ""
    /\ printed = FALSE
    /\ integer = 0
    /\ roman = <<>>

\* Roman(s, check=chk, subtractive_notation=subtr_notation)
New(s, chk, subtr_notation) ==
    /\ pc = "none"
    /\ LET r == Roman_init(Self, s, chk, subtr_notation) IN
       /\ Leaves(r)
       /\ pc' = IF r.raised = "" THEN "live" ELSE "failed"
    /\ op' = "Roman"
    /\ UNCHANGED <<integer, roman>>

\* instance.numeral = s
SetNumeral(s) ==
    /\ pc = "live"
    /\ Leaves(numeral_setter(Self, TRUE, s))
    /\ op' = "numeral"
    /\ UNCHANGED <<pc, integer, roman>>

\* instance.subtractive_notation = b
SetSubtractiveNotation(b) ==
    /\ pc = "live"
    /\ Leaves(subtractive_notation_setter(Self, TRUE, b))
    /\ op' = "subtractive_notation"
    /\ UNCHANGED <<pc, integer, roman>>

\* instance.value = k
SetValue(k) ==
    /\ pc = "live"
    /\ Leaves(value_setter(Self, k))
    /\ op' = "value"
    /\ UNCHANGED <<pc, integer, roman>>

\* instance.check_validity(chk)
CheckValidity(chk) ==
    /\ pc = "live"
    /\ Leaves(check_validity(Self, chk))
    /\ op' = "check_validity"
    /\ UNCHANGED <<pc, integer, roman>>

\* the characters of the strings handed to an instance: the alphabet, a
\* lower-case letter of it and a character outside it
InputChars == Alphabet \cup {"i", "Z"}

\* those of them that upper() takes into the alphabet
AlphabetInputChars == Alphabet \cup {"i"}

\* the strings handed to the constructor and those assigned to the numeral
NewStrings == Strings(InputChars, MaxNewLen)
CtorStrings == Strings(InputChars, MaxCtorLen)
AssignStrings == Strings(InputChars, MaxAssignLen)
AlphabetAssignStrings == Strings(AlphabetInputChars, MaxAssignLen)

Next ==
    \/ /\ pc = "none"
       /\ \E s \in CtorStrings, chk \in BOOLEAN, b \in BOOLEAN :
             New(s, chk, b)
    \/ /\ pc = "live"
       /\ \E s \in AssignStrings : SetNumeral(s)
    \/ \E b \in BOOLEAN : SetSubtractiveNotation(b)
    \/ \E k \in 0 .. MaxValueArg : SetValue(k)
    \/ \E chk \in BOOLEAN : CheckValidity(chk)

Spec == Init /\ [][Next]_vars

\* the same, every string assigned to the numeral being over the alphabet
NextAlphabet ==
    \/ /\ pc = "none"
       /\ \E s \in CtorStrings, chk \in BOOLEAN, b \in BOOLEAN :
             New(s, chk, b)
    \/ /\ pc = "live"
       /\ \E s \in AlphabetAssignStrings : SetNumeral(s)
    \/ \E b \in BOOLEAN : SetSubtractiveNotation(b)
    \/ \E k \in 0 .. MaxValueArg : SetValue(k)
    \/ \E chk \in BOOLEAN : CheckValidity(chk)

SpecAlphabet == Init /\ [][NextAlphabet]_vars

\* instances are built and nothing else
NextNew ==
    /\ pc = "none"
    /\ \E s \in NewStrings, chk \in BOOLEAN, b \in BOOLEAN :
          New(s, chk, b)

SpecNew == Init /\ [][NextNew]_vars

-----------------------------------------------------------------------------
(* The claims about an instance *)

AlphabetOnly(num) == \A i \in DOMAIN num : num[i] \in Alphabet

\* the sum of the values of the tokens ts
RECURSIVE SumOfValues(_)
SumOfValues(ts) ==
    IF ts = <<>> THEN 0 ELSE Token(Head(ts)).value + SumOfValues(Tail(ts))

\* C3: once an instance is built, style toggles and assignments of strings
\* over the alphabet to the numeral never change its value, and the numeral
\* always decodes, under the current style, to that value.
C3_ValueKept ==
    /\ [](pc = "live" =>
            LET d == roman_to_int(numeral, subtractive_notation) IN
            d.raised = "" /\ d.integer = value)
    /\ [][pc = "live" => value' = value]_vars

C3_Witness ==
    /\ pc = "live"
    /\ ~subtractive_notation
    /\ numeral = Str4("I", "I", "I", "I")
    /\ value = 4
    /\ is_valid

\* C4: assigning to the numeral a string over the alphabet that decodes,
\* under the current style, to another integer than the value raises
\* nothing and leaves numeral, value, style and is_valid as they were.
C4_MismatchRejected ==
    [][op' = "numeral" =>
          \/ /\ raised' = ""
             /\ numeral' = numeral
             /\ value' = value
             /\ subtractive_notation' = subtractive_notation
             /\ is_valid' = is_valid
          \/ \A s \in AlphabetAssignStrings :
                ~(/\ roman_to_int(upper(s), subtractive_notation).integer # value
                  /\ SetNumeral(s))]_vars

C4_Witness ==
    /\ pc = "live"
    /\ op = "numeral"
    /\ printed
    /\ raised = ""
    /\ numeral = <<"I", "V">>
    /\ value = 4

\* C5: for a string over the alphabet and either style, building with
\* check=False succeeds with the sum of the token values as value and the
\* verdict of the validator as is_valid (XLL: 90 and False); building with
\* check=True fails with the invalid-numeral error exactly when the
\* validator rejects the string, and else gives that value and is_valid True.
C5_Construct ==
    (pc # "none" /\ AlphabetOnly(numeral)) =>
        LET verdict == _is_valid_roman(numeral, subtractive_notation).result
            total == SumOfValues(TokensOf(numeral, subtractive_notation))
        IN /\ (pc = "failed") <=> (check /\ ~verdict)
           /\ pc = "failed" => raised = "ValueError: not a valid roman numeral"
           /\ pc = "live" => (raised = "" /\ value = total /\ is_valid = verdict)
           /\ (numeral = Str3("X", "L", "L") /\ subtractive_notation)
                 => (~check /\ pc = "live" /\ value = 90 /\ ~is_valid) \/ (check /\ pc = "failed")

C5_Witness ==
    /\ pc = "live"
    /\ ~check
    /\ subtractive_notation
    /\ numeral = Str3("X", "L", "L")
    /\ value = 90
    /\ ~is_valid

C5_WitnessFailed ==
    /\ pc = "failed"
    /\ check
    /\ numeral = Str3("X", "L", "L")

\* C9: the numeral of an instance holds only characters of the alphabet.
C9_AlphabetOnly == pc = "live" => AlphabetOnly(numeral)

\* C10: is_valid is the verdict of the validator on the current numeral
\* under the current style.
C10_IsValidCurrent ==
    pc = "live" => is_valid = _is_valid_roman(numeral, subtractive_notation).result

====
